---- MODULE Spec2Model ----
(***************************************************************************)
(* Personal Budget Tracker (src/app.py): the session state                 *)
(* (st.session_state.data), the persisted document (budget_data.json),     *)
(* the ledger operations, the Streamlit form handlers and the budget       *)
(* status calculation.                                                     *)
(*                                                                         *)
(* Amounts are counted in cents (0.01 is 1), so every sum is exact;        *)
(* binary floating point rounding is outside this model.  A calendar date  *)
(* is the triple <<year, month, day>> of datetime.date; a date string is   *)
(* the sequence of the character codes of its '%Y-%m-%d' form.  A          *)
(* timestamp is the instant read from the clock, which advances with every *)
(* reading.                                                                *)
(***************************************************************************)
EXTENDS Integers, Sequences, FiniteSets, TLC

VARIABLES data, file, clock, outcome

vars == <<data, file, clock, outcome>>

(***************************************************************************)
(* Bounds of the model.                                                    *)
(***************************************************************************)
\* entries ever created in one run (readings of the clock)
MaxClock == 3
\* consecutive days, from FirstDay on, on which the dashboard is computed
NumDays == 8

(***************************************************************************)
(* Program constants.                                                      *)
(***************************************************************************)
\* min_value=0.01 of the four amount inputs
MinAmount == 1
\* min_value=0.0 of the daily budget input
MinDailyBudget == 0
\* 'daily_budget': 20.0 of the default state
DefaultDailyBudget == 2000

\* budget_data.json does not exist
NoFile == [exists |-> FALSE, content |-> <<>>]

\* budget_data.json holds the JSON document o
FileOf(o) == [exists |-> TRUE, content |-> o]

Categories ==
  {"Food", "Transport", "Entertainment", "Shopping", "Bills", "Healthcare", "Other"}

(***************************************************************************)
(* datetime.date: ordinals, weekday, strftime and strptime.                *)
(***************************************************************************)
IsLeap(y) == (y % 4 = 0) /\ ((y % 100 # 0) \/ (y % 400 = 0))

DaysInMonth(y, m) ==
  IF m = 2 THEN (IF IsLeap(y) THEN 29 ELSE 28)
  ELSE IF m \in {4, 6, 9, 11} THEN 30 ELSE 31

RECURSIVE DaysBeforeMonth(_, _)
DaysBeforeMonth(y, m) ==
  IF m = 1 THEN 0 ELSE DaysBeforeMonth(y, m - 1) + DaysInMonth(y, m - 1)

DaysBeforeYear(y) ==
  (y - 1) * 365 + ((y - 1) \div 4) - ((y - 1) \div 100) + ((y - 1) \div 400)

\* date.toordinal(): 0001-01-01 is day 1
toordinal(d) == DaysBeforeYear(d[1]) + DaysBeforeMonth(d[1], d[2]) + d[3]

\* date.fromordinal(n)
fromordinal(n) ==
  LET n0   == n - 1
      n400 == n0 \div 146097
      r400 == n0 % 146097
      n100 == r400 \div 36524
      r100 == r400 % 36524
      n4   == r100 \div 1461
      r4   == r100 % 1461
      n1   == r4 \div 365
      r1   == r4 % 365
      year == n400 * 400 + 1 + n100 * 100 + n4 * 4 + n1
      m0   == (r1 + 50) \div 32
      p0   == DaysBeforeMonth(year, m0)
      month == IF p0 > r1 THEN m0 - 1 ELSE m0
      prec  == IF p0 > r1 THEN p0 - DaysInMonth(year, m0 - 1) ELSE p0
  IN  IF n1 = 4 \/ n100 = 4
        THEN <<year - 1, 12, 31>>
        ELSE <<year, month, r1 - prec + 1>>

\* date.weekday(): Monday is 0, Sunday is 6
weekday(d) == (toordinal(d) + 6) % 7

\* date - timedelta(days=k)
MinusDays(d, k) == fromordinal(toordinal(d) - k)

\* (a - b).days
DaysBetween(a, b) == toordinal(a) - toordinal(b)

\* a >= b on dates: the comparison of (year, month, day)
DateGE(a, b) ==
  \/ a[1] > b[1]
  \/ a[1] = b[1] /\ a[2] > b[2]
  \/ a[1] = b[1] /\ a[2] = b[2] /\ a[3] >= b[3]

\* the character codes of '0'..'9' and of '-'
Digit(k) == 48 + k
Hyphen == Digit(0) - 3

\* date.strftime('%Y-%m-%d')
strftime(d) ==
  << Digit(d[1] \div 1000), Digit((d[1] \div 100) % 10),
     Digit((d[1] \div 10) % 10), Digit(d[1] % 10), Hyphen,
     Digit(d[2] \div 10), Digit(d[2] % 10), Hyphen,
     Digit(d[3] \div 10), Digit(d[3] % 10) >>

\* datetime.strptime(s, '%Y-%m-%d').date()
strptime(s) ==
  << (s[1] - 48) * 1000 + (s[2] - 48) * 100 + (s[3] - 48) * 10 + (s[4] - 48),
     (s[6] - 48) * 10 + (s[7] - 48),
     (s[9] - 48) * 10 + (s[10] - 48) >>

\* s < t on str: the first differing character decides
StrLess(s, t) ==
  \E i \in 1..Len(t) :
     /\ \A j \in 1..(i - 1) : j <= Len(s) /\ s[j] = t[j]
     /\ (i > Len(s) \/ s[i] < t[i])

(***************************************************************************)
(* Inputs of the model: what the user types, picks and when the page is    *)
(* looked at.                                                              *)
(***************************************************************************)
FirstDay == <<2024, 1, 29>>

Days == { fromordinal(toordinal(FirstDay) + k) : k \in 0..(NumDays - 1) }

\* what is typed into "Amount" of the income, expense and savings forms
IncomeAmountInputs == {0, 5000}

ExpenseAmountInputs == {-100, 7000}

SavingsAmountInputs == {0, 5000, 7000}

DescriptionInputs == {"", "Lunch"}

\* what is picked in "Date" of the income and expense forms: a Wednesday and
\* the Monday after it, in two months
DateInputs == { <<2024, 1, 31>>, <<2024, 2, 5>> }

\* what is picked in "Date" of the savings forms
SavingsDateInputs == { <<2024, 1, 31>> }

CategoryInputs == {"Food"}

DailyBudgetInputs == {-100, 0, 2000, 2500}

(***************************************************************************)
(* json.dump / json.load.  A JSON object is the sequence of its            *)
(* <<key, value>> members, a dict is a function on its keys.  Members are  *)
(* written in the order of Keys; equality of dicts does not depend on it.  *)
(***************************************************************************)
EntryKeys ==
  <<"amount", "description", "category", "date", "timestamp", "account", "type">>

SettingsKeys == <<"daily_budget", "week_start">>

DataKeys ==
  <<"income", "expenses", "savings_account", "savings_transactions", "settings">>

ListKeys == {"income", "expenses", "savings_transactions"}

PresentKeys(d, keys) == SelectSeq(keys, LAMBDA k : k \in DOMAIN d)

\* a dict of scalars as a JSON object
DumpObject(d, keys) ==
  LET ks == PresentKeys(d, keys)
  IN  [i \in 1..Len(ks) |-> <<ks[i], d[ks[i]]>>]

\* a JSON object of scalars as a dict
LoadObject(o) ==
  [k \in {o[i][1] : i \in 1..Len(o)} |->
     o[CHOOSE i \in 1..Len(o) : o[i][1] = k][2]]

DumpList(l) == [i \in 1..Len(l) |-> DumpObject(l[i], EntryKeys)]

LoadList(l) == [i \in 1..Len(l) |-> LoadObject(l[i])]

\* json.dump(st.session_state.data, f, indent=2)
json_dump(d) ==
  LET ks == PresentKeys(d, DataKeys)
  IN  [i \in 1..Len(ks) |->
         <<ks[i],
           IF ks[i] \in ListKeys THEN DumpList(d[ks[i]])
           ELSE IF ks[i] = "settings" THEN DumpObject(d[ks[i]], SettingsKeys)
           ELSE d[ks[i]]>>]

\* json.load(f)
json_load(o) ==
  [k \in {o[i][1] : i \in 1..Len(o)} |->
     LET v == o[CHOOSE i \in 1..Len(o) : o[i][1] = k][2]
     IN  IF k \in ListKeys THEN LoadList(v)
         ELSE IF k = "settings" THEN LoadObject(v)
         ELSE v]

(***************************************************************************)
(* The session state and the persisted document.  Every operation takes    *)
(* the session's data and the file and returns both, with the value the    *)
(* Python function returns.                                                *)
(***************************************************************************)
Result(d, f, r) == [data |-> d, file |-> f, ret |-> r]

\* def save_data()
save_data(d) == FileOf(json_dump(d))

DefaultData ==
  [income |-> <<>>,
   expenses |-> <<>>,
   savings_account |-> 0,
   savings_transactions |-> <<>>,
   settings |-> [daily_budget |-> DefaultDailyBudget, week_start |-> "Monday"]]

\* a document written before the savings account existed
LegacyDocument ==
  << <<"income", <<>> >>,
     <<"expenses", <<>> >>,
     <<"settings",
       << <<"daily_budget", DefaultDailyBudget>>, <<"week_start", "Monday">> >> >> >>

InitialFiles == {NoFile, FileOf(LegacyDocument)}

\* "Initialize session state": a new session loads the document, or starts
\* from the default state
initialize_session_state(f) ==
  IF f.exists
    THEN LET loaded == json_load(f.content)
             with_account ==
               IF "savings_account" \notin DOMAIN loaded
                 THEN loaded @@ ("savings_account" :> 0)
                 ELSE loaded
             migrated ==
               IF "savings_transactions" \notin DOMAIN with_account
                 THEN with_account @@ ("savings_transactions" :> <<>>)
                 ELSE with_account
         IN  Result(migrated, save_data(migrated), "None")
    ELSE Result(DefaultData, f, "None")

\* def add_income(amount, description, date)
add_income(d, f, amount, description, date, now) ==
  LET entry == [amount |-> amount,
                description |-> description,
                date |-> strftime(date),
                timestamp |-> now,
                account |-> "current"]
      d2 == [d EXCEPT !.income = Append(@, entry)]
  IN  Result(d2, save_data(d2), "None")

\* def add_expense(amount, description, category, date)
add_expense(d, f, amount, description, category, date, now) ==
  LET entry == [amount |-> amount,
                description |-> description,
                category |-> category,
                date |-> strftime(date),
                timestamp |-> now,
                account |-> "current"]
      d2 == [d EXCEPT !.expenses = Append(@, entry)]
  IN  Result(d2, save_data(d2), "None")

\* add_to_savings taking the deposit out of the current account
add_to_savings_from_current(d, f, amount, description, date, now) ==
  LET entry == [amount |-> amount,
                description |-> description,
                date |-> strftime(date),
                timestamp |-> now,
                type |-> "deposit"]
      spent == [amount |-> amount,
                description |-> description,
                category |-> "Other",
                date |-> strftime(date),
                timestamp |-> now,
                account |-> "current"]
      d2 == [d EXCEPT !.savings_account = @ + amount,
                      !.savings_transactions = Append(@, entry),
                      !.expenses = Append(@, spent)]
  IN  Result(d2, save_data(d2), "None")

\* def add_to_savings(amount, description, date)
add_to_savings(d, f, amount, description, date, now) ==
  LET entry == [amount |-> amount,
                description |-> description,
                date |-> strftime(date),
                timestamp |-> now,
                type |-> "deposit"]
      d2 == [d EXCEPT !.savings_account = @ + amount,
                      !.savings_transactions = Append(@, entry)]
  IN  Result(d2, save_data(d2), "None")

\* withdraw_from_savings without its check of the balance
withdraw_from_savings_unchecked(d, f, amount, description, date, now) ==
  LET entry == [amount |-> amount,
                description |-> description,
                date |-> strftime(date),
                timestamp |-> now,
                type |-> "withdrawal"]
      d2 == [d EXCEPT !.savings_account = @ - amount,
                      !.savings_transactions = Append(@, entry)]
  IN  Result(d2, save_data(d2), "True")

\* withdraw_from_savings refusing a withdrawal of the whole balance
withdraw_from_savings_strict(d, f, amount, description, date, now) ==
  IF d.savings_account > amount
    THEN withdraw_from_savings_unchecked(d, f, amount, description, date, now)
    ELSE Result(d, f, "False")

\* def withdraw_from_savings(amount, description, date)
withdraw_from_savings(d, f, amount, description, date, now) ==
  IF d.savings_account >= amount
    THEN LET entry == [amount |-> amount,
                       description |-> description,
                       date |-> strftime(date),
                       timestamp |-> now,
                       type |-> "withdrawal"]
             d2 == [d EXCEPT !.savings_account = @ - amount,
                             !.savings_transactions = Append(@, entry)]
         IN  Result(d2, save_data(d2), "True")
    ELSE Result(d, f, "False")

\* del l[index]: a negative index counts from the end; out of range it
\* raises IndexError and nothing is deleted
PyDel(l, index) ==
  LET i == IF index < 0 THEN Len(l) + index ELSE index
  IN  IF i < 0 \/ i >= Len(l)
        THEN l
        ELSE SubSeq(l, 1, i) \o SubSeq(l, i + 2, Len(l))

\* delete_income without the lower bound of its range check
delete_income_no_lower_bound(d, f, index) ==
  IF index < Len(d.income)
    THEN LET d2 == [d EXCEPT !.income = PyDel(@, index)]
         IN  Result(d2, save_data(d2), "None")
    ELSE Result(d, f, "None")

\* def delete_income(index)
delete_income(d, f, index) ==
  IF 0 <= index /\ index < Len(d.income)
    THEN LET d2 == [d EXCEPT !.income = PyDel(@, index)]
         IN  Result(d2, save_data(d2), "None")
    ELSE Result(d, f, "None")

\* def delete_expense(index)
delete_expense(d, f, index) ==
  IF 0 <= index /\ index < Len(d.expenses)
    THEN LET d2 == [d EXCEPT !.expenses = PyDel(@, index)]
         IN  Result(d2, save_data(d2), "None")
    ELSE Result(d, f, "None")

\* sum(item['amount'] for item in l)
RECURSIVE SumAmounts(_)
SumAmounts(l) ==
  IF l = <<>> THEN 0 ELSE l[1].amount + SumAmounts(Tail(l))

Max(a, b) == IF a >= b THEN a ELSE b

\* today - timedelta(days=today.weekday())
week_start_of(today) == MinusDays(today, weekday(today))

\* the week's expenses, with the first day of the week left out
current_week_expenses_after(expenses, week_start) ==
  SumAmounts(SelectSeq(expenses,
                       LAMBDA item : /\ DateGE(strptime(item.date), week_start)
                                     /\ strptime(item.date) # week_start))

\* sum(item['amount'] for item in expenses
\*     if datetime.strptime(item['date'], '%Y-%m-%d').date() >= week_start)
current_week_expenses_of(expenses, week_start) ==
  SumAmounts(SelectSeq(expenses,
                       LAMBDA item : DateGE(strptime(item.date), week_start)))

\* the days of the week so far, today left out
days_this_week_without_today(today, week_start) ==
  DaysBetween(today, week_start)

\* days_this_week = (today - week_start).days + 1
days_this_week_of(today, week_start) == DaysBetween(today, week_start) + 1

\* the daily budget with the rollover, over-spending not floored
available_today_unfloored(daily_budget, rollover) == daily_budget + rollover

\* available_today = daily_budget + max(0, rollover)
available_today_of(daily_budget, rollover) == daily_budget + Max(0, rollover)

\* def calculate_budget_status(), with today = datetime.now().date()
calculate_budget_status(d, today) ==
  LET daily_budget == d.settings.daily_budget
      total_income == SumAmounts(d.income)
      total_expenses == SumAmounts(d.expenses)
      week_start == week_start_of(today)
      current_week_expenses == current_week_expenses_of(d.expenses, week_start)
      days_this_week == days_this_week_of(today, week_start)
      expected_spending == daily_budget * days_this_week
      rollover == expected_spending - current_week_expenses
  IN  [total_income |-> total_income,
       total_expenses |-> total_expenses,
       current_account_balance |-> total_income - total_expenses,
       savings_balance |-> d.savings_account,
       daily_budget |-> daily_budget,
       current_week_expenses |-> current_week_expenses,
       expected_spending |-> expected_spending,
       rollover |-> rollover,
       available_today |-> available_today_of(daily_budget, rollover),
       days_this_week |-> days_this_week]

(***************************************************************************)
(* The page: the widgets and the handlers of the forms, the sidebar and    *)
(* the History tab.  The outcome is what the handler tells the user.       *)
(***************************************************************************)
\* st.number_input(..., min_value=m): the widget yields no value below m
number_input(value, min_value) == value >= min_value

\* income_form without its check of the description
income_form_unvalidated(d, f, amount, description, date, now) ==
  [add_income(d, f, amount, description, date, now) EXCEPT !.ret = "success"]

\* with st.form("income_form")
income_form(d, f, amount, description, date, now) ==
  IF description # ""
    THEN [add_income(d, f, amount, description, date, now) EXCEPT !.ret = "success"]
    ELSE Result(d, f, "description_error")

\* with st.form("expense_form")
expense_form(d, f, amount, description, category, date, now) ==
  IF description # ""
    THEN [add_expense(d, f, amount, description, category, date, now)
            EXCEPT !.ret = "success"]
    ELSE Result(d, f, "description_error")

\* with st.form("savings_deposit_form")
savings_deposit_form(d, f, amount, description, date, now) ==
  IF description # ""
    THEN [add_to_savings(d, f, amount, description, date, now)
            EXCEPT !.ret = "success"]
    ELSE Result(d, f, "description_error")

\* with st.form("savings_withdrawal_form")
savings_withdrawal_form(d, f, amount, description, date, now) ==
  IF description # ""
    THEN LET r == withdraw_from_savings(d, f, amount, description, date, now)
         IN  IF r.ret = "True"
               THEN [r EXCEPT !.ret = "success"]
               ELSE [r EXCEPT !.ret = "insufficient_funds"]
    ELSE Result(d, f, "description_error")

\* the daily budget input without save_data()
daily_budget_setting_unsaved(d, f, daily_budget) ==
  IF daily_budget # d.settings.daily_budget
    THEN Result([d EXCEPT !.settings.daily_budget = daily_budget], f, "None")
    ELSE Result(d, f, "None")

\* the sidebar's "Daily Budget Allowance" input
daily_budget_setting(d, f, daily_budget) ==
  IF daily_budget # d.settings.daily_budget
    THEN LET d2 == [d EXCEPT !.settings.daily_budget = daily_budget]
         IN  Result(d2, save_data(d2), "None")
    ELSE Result(d, f, "None")

\* a >= b on str
StrGE(a, b) == ~StrLess(a, b)

Permutations3(n) ==
  { p \in [1..n -> 1..n] : \A i, j \in 1..n : i # j => p[i] # p[j] }

\* df.sort_values('date', ascending=False).reset_index(drop=True): the rows'
\* positions in the ledger, in display order; rows of one date come in any
\* order
sort_values_descending(l) ==
  { p \in Permutations3(Len(l)) :
      \A i, j \in 1..Len(l) : i < j => StrGE(l[p[i]].date, l[p[j]].date) }

\* original_idx = len(st.session_state.data['income']) - 1 - idx
original_idx(l, idx) == Len(l) - 1 - idx

\* the delete button of row idx of "Recent Income"
income_delete_button(d, f, idx) == delete_income(d, f, original_idx(d.income, idx))

\* the delete button of row idx of "Recent Expenses"
expense_delete_button(d, f, idx) ==
  delete_expense(d, f, original_idx(d.expenses, idx))

(***************************************************************************)
(* The state machine of the page.                                          *)
(***************************************************************************)
Init ==
  /\ \E f \in InitialFiles :
       LET r == initialize_session_state(f)
       IN  data = r.data /\ file = r.file
  /\ clock = 0
  /\ outcome = "None"

\* what every handler leaves: the clock advances when an entry was stamped
Leaves(r) ==
  /\ data' = r.data
  /\ file' = r.file
  /\ outcome' = r.ret
  /\ clock' = IF Len(r.data.income) + Len(r.data.expenses)
                   + Len(r.data.savings_transactions)
                 > Len(data.income) + Len(data.expenses)
                   + Len(data.savings_transactions)
              THEN clock + 1 ELSE clock
  /\ clock' <= MaxClock

SubmitIncome(amount, description, date) ==
  /\ number_input(amount, MinAmount)
  /\ Leaves(income_form(data, file, amount, description, date, clock))

SubmitExpense(amount, description, category, date) ==
  /\ number_input(amount, MinAmount)
  /\ Leaves(expense_form(data, file, amount, description, category, date, clock))

SubmitDeposit(amount, description, date) ==
  /\ number_input(amount, MinAmount)
  /\ Leaves(savings_deposit_form(data, file, amount, description, date, clock))

SubmitWithdrawal(amount, description, date) ==
  /\ number_input(amount, MinAmount)
  /\ Leaves(savings_withdrawal_form(data, file, amount, description, date, clock))

SetDailyBudget(daily_budget) ==
  /\ number_input(daily_budget, MinDailyBudget)
  /\ Leaves(daily_budget_setting(data, file, daily_budget))

ClickDeleteIncome(idx) ==
  /\ idx \in 0..(Len(data.income) - 1)
  /\ Leaves(income_delete_button(data, file, idx))

ClickDeleteExpense(idx) ==
  /\ idx \in 0..(Len(data.expenses) - 1)
  /\ Leaves(expense_delete_button(data, file, idx))

\* the page is opened in a new session
NewSession ==
  Leaves(initialize_session_state(file))

Rows == 0..(MaxClock - 1)

Next ==
  \/ \E a \in IncomeAmountInputs, s \in DescriptionInputs, dt \in DateInputs :
       SubmitIncome(a, s, dt)
  \/ \E a \in ExpenseAmountInputs, s \in DescriptionInputs, c \in CategoryInputs,
        dt \in DateInputs :
       SubmitExpense(a, s, c, dt)
  \/ \E a \in SavingsAmountInputs, s \in DescriptionInputs,
        dt \in SavingsDateInputs :
       SubmitDeposit(a, s, dt)
  \/ \E a \in SavingsAmountInputs, s \in DescriptionInputs,
        dt \in SavingsDateInputs :
       SubmitWithdrawal(a, s, dt)
  \/ \E b \in DailyBudgetInputs : SetDailyBudget(b)
  \/ \E idx \in Rows : ClickDeleteIncome(idx)
  \/ \E idx \in Rows : ClickDeleteExpense(idx)
  \/ NewSession

Spec == Init /\ [][Next]_vars

(***************************************************************************)
(* The ledger operations called directly, with any index.                  *)
(***************************************************************************)
IndexInputs == (0 - 2)..(MaxClock + 1)

Positive(S) == { a \in S : a > 0 }

NonEmpty(S) == { x \in S : x # "" }

CallAddIncome(amount, description, date) ==
  Leaves(add_income(data, file, amount, description, date, clock))

CallAddExpense(amount, description, category, date) ==
  Leaves(add_expense(data, file, amount, description, category, date, clock))

CallAddToSavings(amount, description, date) ==
  Leaves(add_to_savings(data, file, amount, description, date, clock))

CallWithdrawFromSavings(amount, description, date) ==
  Leaves(withdraw_from_savings(data, file, amount, description, date, clock))

CallDeleteIncome(index) ==
  Leaves(delete_income(data, file, index))

CallDeleteExpense(index) ==
  Leaves(delete_expense(data, file, index))

LedgerNext ==
  \/ \E a \in Positive(IncomeAmountInputs), s \in NonEmpty(DescriptionInputs),
        dt \in DateInputs :
       CallAddIncome(a, s, dt)
  \/ \E a \in Positive(ExpenseAmountInputs), s \in NonEmpty(DescriptionInputs),
        c \in CategoryInputs, dt \in DateInputs :
       CallAddExpense(a, s, c, dt)
  \/ \E a \in Positive(SavingsAmountInputs), s \in NonEmpty(DescriptionInputs),
        dt \in SavingsDateInputs :
       CallAddToSavings(a, s, dt)
  \/ \E a \in Positive(SavingsAmountInputs), s \in NonEmpty(DescriptionInputs),
        dt \in SavingsDateInputs :
       CallWithdrawFromSavings(a, s, dt)
  \/ \E i \in IndexInputs : CallDeleteIncome(i)
  \/ \E i \in IndexInputs : CallDeleteExpense(i)

LedgerSpec == Init /\ [][LedgerNext]_vars

(***************************************************************************)
(* Notions the properties are stated in.                                   *)
(***************************************************************************)
\* the amounts of the transactions of one type, added up
RECURSIVE SumOfType(_, _)
SumOfType(l, type) ==
  IF l = <<>> THEN 0
  ELSE (IF l[1].type = type THEN l[1].amount ELSE 0) + SumOfType(Tail(l), type)

\* l without its element at position pos (from 1), the others in their order
RemoveAt(l, pos) ==
  [j \in 1..(Len(l) - 1) |-> IF j < pos THEN l[j] ELSE l[j + 1]]

IsPrefix(s, t) == Len(s) <= Len(t) /\ \A i \in 1..Len(s) : s[i] = t[i]

Ledgers == <<data.income, data.expenses, data.savings_transactions>>

Status(t) == calculate_budget_status(data, t)

\* C1: starting from the default state, after any deposits and withdrawals
\* (successful or refused) the savings balance is the sum of the deposits
\* minus the sum of the withdrawals recorded, and is never negative.
C1_SavingsBalance ==
  /\ data.savings_account
       = SumOfType(data.savings_transactions, "deposit")
         - SumOfType(data.savings_transactions, "withdrawal")
  /\ data.savings_account >= 0

\* C1 witness: a deposit and a withdrawal were recorded and a further
\* withdrawal was refused.
C1_Witness ==
  /\ outcome = "insufficient_funds"
  /\ \E i \in DOMAIN data.savings_transactions :
       data.savings_transactions[i].type = "deposit"
  /\ \E i \in DOMAIN data.savings_transactions :
       data.savings_transactions[i].type = "withdrawal"

\* C2: a withdrawal succeeds exactly when the balance covers the amount (the
\* whole balance included); on success exactly one withdrawal transaction is
\* appended and the balance drops by the amount; otherwise the session's
\* data and the persisted document are left as they were.
C2_Withdrawal ==
  [][\A a \in SavingsAmountInputs, s \in NonEmpty(DescriptionInputs),
        dt \in SavingsDateInputs :
       SubmitWithdrawal(a, s, dt) =>
         /\ outcome' \in {"success", "insufficient_funds"}
         /\ (outcome' = "success") <=> (data.savings_account >= a)
         /\ outcome' = "success" =>
              /\ Len(data'.savings_transactions)
                   = Len(data.savings_transactions) + 1
              /\ IsPrefix(data.savings_transactions, data'.savings_transactions)
              /\ LET last == data'.savings_transactions[
                               Len(data'.savings_transactions)]
                 IN  last.type = "withdrawal" /\ last.amount = a
              /\ data'.savings_account = data.savings_account - a
         /\ outcome' = "insufficient_funds" =>
              /\ a > data.savings_account
              /\ data' = data
              /\ file' = file]_vars

\* C2 witness: 50 deposited, then a withdrawal of more refused: the balance
\* is 50 and there is one transaction.
C2_Witness ==
  /\ outcome = "insufficient_funds"
  /\ data.savings_account = 5000
  /\ Len(data.savings_transactions) = 1

\* C3: delete_income(i) and delete_expense(i) with 0 <= i < n leave the ledger
\* without its element at insertion position i, the others in their order
\* (length n-1); for every other index the call changes neither the data nor
\* the persisted document.
C3_DeleteByIndex ==
  [][\A i \in IndexInputs :
       /\ CallDeleteIncome(i) =>
            IF 0 <= i /\ i < Len(data.income)
              THEN /\ data'.income = RemoveAt(data.income, i + 1)
                   /\ Len(data'.income) = Len(data.income) - 1
                   /\ data' = [data EXCEPT !.income = data'.income]
              ELSE data' = data /\ file' = file
       /\ CallDeleteExpense(i) =>
            IF 0 <= i /\ i < Len(data.expenses)
              THEN /\ data'.expenses = RemoveAt(data.expenses, i + 1)
                   /\ Len(data'.expenses) = Len(data.expenses) - 1
                   /\ data' = [data EXCEPT !.expenses = data'.expenses]
              ELSE data' = data /\ file' = file]_vars

\* C3 witness: of three income entries the middle one was deleted.
C3_Witness ==
  /\ Len(data.income) = 2
  /\ data.income[1].timestamp = 0
  /\ data.income[2].timestamp = 2
  /\ clock = 3

\* C4 as stated: on a state with no income and no expenses, for every date
\* and daily budget, the totals and the week's expenses are 0, days_elapsed
\* is at least 1 and available_today is the daily budget.
C4_AsStated ==
  (data.income = <<>> /\ data.expenses = <<>>) =>
    \A t \in Days :
      /\ Status(t).total_income = 0
      /\ Status(t).total_expenses = 0
      /\ Status(t).current_week_expenses = 0
      /\ Status(t).days_this_week >= 1
      /\ Status(t).available_today = data.settings.daily_budget

\* C4 amended: on a state with no income and no expenses, for every date and
\* daily budget, the totals and the week's expenses are 0, days_elapsed is
\* at least 1 and available_today is daily_budget * (days_elapsed + 1).
C4_EmptyState ==
  (data.income = <<>> /\ data.expenses = <<>>) =>
    \A t \in Days :
      /\ Status(t).total_income = 0
      /\ Status(t).total_expenses = 0
      /\ Status(t).current_week_expenses = 0
      /\ Status(t).days_this_week >= 1
      /\ Status(t).available_today
           = data.settings.daily_budget * (Status(t).days_this_week + 1)

\* C4 witness: no income, no expenses, a daily budget other than the default
\* and a savings transaction.
C4_Witness ==
  /\ data.income = <<>>
  /\ data.expenses = <<>>
  /\ data.settings.daily_budget = 2500
  /\ data.savings_transactions # <<>>

\* C5: for every reachable state and every date, rollover is daily_budget *
\* days_elapsed - week_expenses and available_today is daily_budget +
\* max(0, rollover): never below the daily budget, equal to it when the week
\* is over-spent (rollover <= 0) and above it by exactly rollover otherwise;
\* with a daily budget of 20 on a Wednesday, week expenses of 0 give 80 and
\* of 70 give 20.
C5_AvailableToday ==
  \A t \in Days :
    LET st == Status(t)
        db == data.settings.daily_budget
    IN  /\ st.daily_budget = db
        /\ st.rollover = db * st.days_this_week - st.current_week_expenses
        /\ st.available_today >= db
        /\ st.rollover <= 0 => st.available_today = db
        /\ st.rollover > 0 => st.available_today = db + st.rollover
        /\ (db = 2000 /\ weekday(t) = 2 /\ st.current_week_expenses = 0)
             => st.available_today = 8000
        /\ (db = 2000 /\ weekday(t) = 2 /\ st.current_week_expenses = 7000)
             => st.available_today = 2000

\* C5 witness: a daily budget of 20 and, on a Wednesday, week expenses of 70:
\* the week is over-spent by 10.
C5_Witness ==
  \E t \in Days :
    /\ weekday(t) = 2
    /\ data.settings.daily_budget = 2000
    /\ Status(t).current_week_expenses = 7000
    /\ Status(t).rollover = 0 - 1000

\* C6: at the start and after every action, a new session's load of the
\* persisted document (the default state when there is none) yields the
\* session's data, and so the same budget status for every date.
C6_RoundTrip ==
  LET loaded == initialize_session_state(file).data
  IN  /\ loaded = data
      /\ \A t \in Days :
           calculate_budget_status(loaded, t) = calculate_budget_status(data, t)

\* C6 witness: the daily budget was changed and an income and an expense were
\* recorded, and a withdrawal was then refused.
C6_Witness ==
  /\ data.settings.daily_budget # DefaultDailyBudget
  /\ data.income # <<>>
  /\ data.expenses # <<>>
  /\ outcome = "insufficient_funds"

EntryValid(e) == e.amount > 0 /\ e.description # ""

\* C7: a form submitted with an empty description or a non-positive amount
\* changes neither the ledgers, nor the savings balance, nor the persisted
\* document; every entry stored has a positive amount and a description.
C7_FormValidation ==
  /\ [](\A k \in 1..3 : \A i \in DOMAIN Ledgers[k] : EntryValid(Ledgers[k][i]))
  /\ [][\A s \in DescriptionInputs, dt \in DateInputs \cup SavingsDateInputs,
           a \in IncomeAmountInputs \cup ExpenseAmountInputs
                   \cup SavingsAmountInputs :
          (/\ s = "" \/ a <= 0
           /\ \/ SubmitIncome(a, s, dt)
              \/ \E c \in CategoryInputs : SubmitExpense(a, s, c, dt)
              \/ SubmitDeposit(a, s, dt)
              \/ SubmitWithdrawal(a, s, dt))
          => (data' = data /\ file' = file /\ outcome' = "description_error")
       ]_vars

\* C7 witness: with entries in the ledgers, a form was submitted without a
\* description.
C7_Witness ==
  /\ outcome = "description_error"
  /\ data.income # <<>>
  /\ data.savings_transactions # <<>>

\* the expenses whose date string is not before that of date d
ExpensesFrom(d) ==
  SelectSeq(data.expenses, LAMBDA e : ~StrLess(e.date, strftime(d)))

\* C8: for every date, week_start is the Monday on or before it,
\* days_elapsed is (date - week_start) + 1, in 1..7, and week_expenses is the
\* sum of the expenses dated on or after week_start, later ones included;
\* expenses dated before week_start change nothing of week_expenses, rollover
\* and available_today, so that on the Monday after a Sunday the rollover of
\* the week before is gone.
C8_WeekWindow ==
  \A t \in Days :
    LET ws == week_start_of(t)
        st == Status(t)
        kept == calculate_budget_status(
                  [data EXCEPT !.expenses = ExpensesFrom(ws)], t)
    IN  /\ weekday(ws) = 0
        /\ toordinal(ws) <= toordinal(t)
        /\ toordinal(t) - toordinal(ws) <= 6
        /\ st.days_this_week = toordinal(t) - toordinal(ws) + 1
        /\ st.days_this_week \in 1..7
        /\ st.days_this_week = weekday(t) + 1
        /\ st.current_week_expenses = SumAmounts(ExpensesFrom(ws))
        /\ kept.current_week_expenses = st.current_week_expenses
        /\ kept.rollover = st.rollover
        /\ kept.available_today = st.available_today
        /\ (weekday(t) = 0 /\ \A i \in DOMAIN data.expenses :
                                 StrLess(data.expenses[i].date, strftime(t)))
             => st.available_today = 2 * data.settings.daily_budget

\* C8 witness: an expense of the week and one dated on the Monday after it;
\* on the week's Sunday both count (the later one too) and there is a
\* rollover; on that Monday only the Monday's expense counts and the rollover
\* is gone.
C8_Witness ==
  \E t \in Days, u \in Days :
    /\ weekday(t) = 6
    /\ toordinal(u) = toordinal(t) + 1
    /\ Len(data.expenses) = 2
    /\ Status(t).current_week_expenses = 14000
    /\ Status(t).rollover > 0
    /\ Status(u).current_week_expenses = 7000
    /\ Status(u).available_today = data.settings.daily_budget

\* C9: in the History tab the index handed to delete_income / delete_expense
\* for the row at display position idx is the insertion position of the entry
\* shown in that row, so that the button deletes the entry displayed and no
\* other.
C9_DeleteDisplayedRow ==
  [][\A idx \in Rows :
       /\ ClickDeleteIncome(idx) =>
            \A rows \in sort_values_descending(data.income) :
              /\ original_idx(data.income, idx) = rows[idx + 1] - 1
              /\ data'.income = RemoveAt(data.income, rows[idx + 1])
       /\ ClickDeleteExpense(idx) =>
            \A rows \in sort_values_descending(data.expenses) :
              /\ original_idx(data.expenses, idx) = rows[idx + 1] - 1
              /\ data'.expenses = RemoveAt(data.expenses, rows[idx + 1])]_vars

\* C10: deposits and withdrawals leave income, expenses and settings (and so
\* the totals and the current balance) as they were: a step that changes one
\* of them is no deposit and no withdrawal; adding and deleting income and
\* expenses leaves the savings balance, the savings transactions and the
\* settings as they were: a step that changes one of them is none of these;
\* no step removes or changes a savings transaction.
C10_Independence ==
  [][/\ ~(/\ data'.income = data.income
          /\ data'.expenses = data.expenses
          /\ data'.settings = data.settings
          /\ SumAmounts(data'.income) - SumAmounts(data'.expenses)
               = SumAmounts(data.income) - SumAmounts(data.expenses))
        => ~(\E a \in SavingsAmountInputs, s \in DescriptionInputs,
                dt \in SavingsDateInputs :
               SubmitDeposit(a, s, dt) \/ SubmitWithdrawal(a, s, dt))
     /\ ~(/\ data'.savings_account = data.savings_account
          /\ data'.savings_transactions = data.savings_transactions
          /\ data'.settings = data.settings)
        => ~(\/ \E a \in IncomeAmountInputs, s \in DescriptionInputs,
                   dt \in DateInputs : SubmitIncome(a, s, dt)
             \/ \E a \in ExpenseAmountInputs, s \in DescriptionInputs,
                   c \in CategoryInputs, dt \in DateInputs :
                  SubmitExpense(a, s, c, dt)
             \/ \E idx \in Rows :
                  ClickDeleteIncome(idx) \/ ClickDeleteExpense(idx))
     /\ IsPrefix(data.savings_transactions, data'.savings_transactions)
    ]_vars

\* C10 witness: a savings transaction is recorded, an income entry was added
\* after it and an expense was added and deleted.
C10_Witness ==
  /\ Len(data.savings_transactions) = 1
  /\ Len(data.income) = 1
  /\ data.expenses = <<>>
  /\ data.savings_transactions[1].timestamp < data.income[1].timestamp
  /\ clock = 3

====
